---- MODULE Spec2Model ----
(***************************************************************************)
(* State-machine model of stim4prf: PRFStimulusPresenter.run (presenter.py)*)
(* with the fixation marker (fixation.py) and the reaction-time analysis   *)
(* (reaction_time.py), and of the EyeLinkTracker call protocol            *)
(* (eyetracking.py).  Time is counted in integer units of 0.1 s.           *)
(***************************************************************************)
EXTENDS Integers, Sequences, FiniteSets, TLC

\* ---------------------------------------------------------------- bounds
MaxFrames == 2
MaxFrameDuration == 2
MaxStep == 1
MaxEnvEvents == 2
MaxInterval == 2
Resolution == 2
MaxCalls == 4
MaxNow == 3
MaxTicks == 4
MaxRtSwitches == 2
MaxRtButtons == 2
MaxTrackerCalls == 3

\* The first clock reading of a run may lag the clock origin by MaxLag.
MaxLag == MaxStep + 1
\* No tick reads the clock later than MaxClock.
MaxClock == (MaxFrames - 1) * MaxFrameDuration + 1
\* random.random() returns u / Resolution for some u in Draws; a switch
\* probability is p / Resolution for some p in Probs.
Draws == 0..(Resolution - 1)
Probs == 0..Resolution
\* The switch probabilities of the presenter runs explored.
SpecProbs == {1}

\* ------------------------------------------------------ program constants
MIN_RT == 3
MAX_RT == 30
colors == <<"magenta", "green">>
button_keys == {"1"}
trigger_key == "s"

VARIABLES
    pc, phase, aborted, exc, outcome, error_log,
    nFrames, frame_duration, hasET, min_switch_interval, color_switch_prob,
    fixation_class,
    win, win_close_calls, et_calls,
    t, frame_idx, frame_onsets, button_events, prev_button_state,
    scan_trigger_times,
    current_color, last_switch_time, switch_log,
    update_calls, last_update, rand_calls, last_draw,
    all_events, log_file,
    samples,
    rt_switch_log, rt_button_events, rt_result,
    el_tracker, el_win, scn_width, tracker_log

ctlvars  == <<pc, phase, aborted, exc, outcome, error_log>>
config   == <<nFrames, frame_duration, hasET, min_switch_interval,
              color_switch_prob, fixation_class>>
resvars  == <<win, win_close_calls, et_calls>>
loopvars == <<t, frame_idx, frame_onsets, button_events,
              prev_button_state, scan_trigger_times>>
fixvars  == <<current_color, last_switch_time, switch_log,
              update_calls, last_update, rand_calls, last_draw>>
logvars  == <<all_events, log_file>>
rtvars   == <<rt_switch_log, rt_button_events, rt_result>>
trkvars  == <<el_tracker, el_win, scn_width, tracker_log>>
vars == <<ctlvars, config, resvars, loopvars, fixvars, logvars, samples,
          rtvars, trkvars>>

\* ------------------------------------------------------------- helpers
Range(s) == {s[i] : i \in 1..Len(s)}

RECURSIVE InsertByTime_before_equal(_, _)
InsertByTime_before_equal(sorted, e) ==
    IF sorted = <<>> THEN <<e>>
    ELSE IF sorted[Len(sorted)][1] < e[1] THEN Append(sorted, e)
    ELSE Append(InsertByTime_before_equal(SubSeq(sorted, 1, Len(sorted) - 1), e),
                sorted[Len(sorted)])

RECURSIVE InsertByTime(_, _)
InsertByTime(sorted, e) ==
    IF sorted = <<>> THEN <<e>>
    ELSE IF sorted[Len(sorted)][1] <= e[1] THEN Append(sorted, e)
    ELSE Append(InsertByTime(SubSeq(sorted, 1, Len(sorted) - 1), e),
                sorted[Len(sorted)])

RECURSIVE SortByTime(_)
SortByTime(s) ==
    IF s = <<>> THEN <<>>
    ELSE InsertByTime(SortByTime(SubSeq(s, 1, Len(s) - 1)), s[Len(s)])

\* ------------------------------------------------- reaction_time.py
\* if min_rt <= dt <= max_rt
InWindow_exclusive(dt, min_rt, max_rt) == min_rt < dt /\ dt < max_rt

InWindow(dt, min_rt, max_rt) == min_rt <= dt /\ dt <= max_rt

RECURSIVE FirstMatch(_, _, _, _)
FirstMatch(switch_time, buttons, min_rt, max_rt) ==
    IF buttons = <<>> THEN <<>>
    ELSE LET dt == buttons[1][1] - switch_time
         IN  IF InWindow(dt, min_rt, max_rt) THEN <<dt>>
             ELSE FirstMatch(switch_time, Tail(buttons), min_rt, max_rt)

\* A matching that gives every button press to one switch only.
RECURSIVE ReactionTimes_one_to_one(_, _, _, _)
ReactionTimes_one_to_one(slog, buttons_sorted, min_rt, max_rt) ==
    IF slog = <<>> THEN <<>>
    ELSE LET m == FirstMatch(slog[1][1], buttons_sorted, min_rt, max_rt)
             rest == IF m = <<>> THEN buttons_sorted
                     ELSE SelectSeq(buttons_sorted,
                                    LAMBDA b : b[1] - slog[1][1] # m[1])
         IN  m \o ReactionTimes_one_to_one(Tail(slog), rest, min_rt, max_rt)

RECURSIVE ReactionTimes(_, _, _, _)
ReactionTimes(slog, buttons_sorted, min_rt, max_rt) ==
    IF slog = <<>> THEN <<>>
    ELSE FirstMatch(slog[1][1], buttons_sorted, min_rt, max_rt)
         \o ReactionTimes(Tail(slog), buttons_sorted, min_rt, max_rt)

RECURSIVE SeqSum(_)
SeqSum(s) == IF s = <<>> THEN 0 ELSE s[1] + SeqSum(Tail(s))

analyze_reaction_times_supplied_order(slog, buttons, min_rt, max_rt) ==
    LET rts == ReactionTimes(slog, buttons, min_rt, max_rt)
    IN  [n_hits |-> Len(rts),
         n_switches |-> Len(slog),
         mean_rt |-> IF rts = <<>> THEN <<"nan">>
                     ELSE <<SeqSum(rts), Len(rts)>>,
         reaction_times |-> rts]

analyze_reaction_times(slog, buttons, min_rt, max_rt) ==
    LET rts == ReactionTimes(slog, SortByTime(buttons), min_rt, max_rt)
    IN  [n_hits |-> Len(rts),
         n_switches |-> Len(slog),
         mean_rt |-> IF rts = <<>> THEN <<"nan">>
                     ELSE <<SeqSum(rts), Len(rts)>>,
         reaction_times |-> rts]

\* The two argument lists after a call of analyze_reaction_times: sorted()
\* copies button_events and the loops only read.
InputsAfterAnalysis_emptied(slog, buttons) ==
    [switch_log |-> <<>>, button_events |-> buttons]

InputsAfterAnalysis(slog, buttons) ==
    [switch_log |-> slog, button_events |-> buttons]

\* ------------------------------------------------------ fixation.py
Toggle_to_second(c) == colors[2]

Toggle(c) == IF c = colors[1] THEN colors[2] ELSE colors[1]

Eligible_one_unit_early(last, now, interval) ==
    last = <<>> \/ (now - last[1]) >= interval - 1

Eligible_strictly_later(last, now, interval) ==
    last = <<>> \/ (now - last[1]) > interval

Eligible(last, now, interval) ==
    last = <<>> \/ (now - last[1]) >= interval

\* if random.random() < self.color_switch_prob
DrawHit_inclusive(u, prob) == u <= prob

DrawHit(u, prob) == u < prob

\* The body of update() for a call with now set.  update_calls counts
\* these calls and last_update is the now of the latest; rand_calls counts
\* the calls of random.random() made by this marker and last_draw is the
\* number the latest of them returned.
SwitchAt(now, u) ==
    /\ update_calls' = update_calls + 1
    /\ last_update' = <<now>>
    /\ IF Eligible(last_switch_time, now, min_switch_interval)
       THEN /\ rand_calls' = rand_calls + 1
            /\ last_draw' = <<u>>
            /\ IF DrawHit(u, color_switch_prob)
               THEN /\ current_color' = Toggle(current_color)
                    /\ last_switch_time' = <<now>>
                    /\ switch_log' =
                         Append(switch_log, <<now, Toggle(current_color)>>)
               ELSE UNCHANGED <<current_color, last_switch_time, switch_log>>
       ELSE UNCHANGED <<current_color, last_switch_time, switch_log,
                        rand_calls, last_draw>>

\* FixationDot.update / FixationCross.update: now_arg is <<>> for a call
\* without now (None) and <<now>> otherwise; u is the number the next
\* call of random.random() returns.
FixationUpdate_none_as_zero(now_arg, u) ==
    SwitchAt(IF now_arg = <<>> THEN 0 ELSE now_arg[1], u)

FixationUpdate(now_arg, u) ==
    IF now_arg = <<>> THEN UNCHANGED fixvars
    ELSE SwitchAt(now_arg[1], u)

\* ABCTargetFixation.update(color=None, now=None): the scheduler passes no
\* color, so the call changes nothing.
ABCUpdate == UNCHANGED fixvars

\* self.fixation.update(...) of the marker class the presenter was given.
MarkerUpdate(now_arg, u) ==
    IF fixation_class = "ABCTargetFixation" THEN ABCUpdate
    ELSE FixationUpdate(now_arg, u)

\* ------------------------------------------------------ presenter.py
\* getattr(self.fixation, "switch_log", []): ABCTargetFixation has no such
\* attribute.
SwitchLogOf(slog) ==
    IF fixation_class = "ABCTargetFixation" THEN <<>> ELSE slog

\* hit_ratio = (n_hits / n_switches * 100) if n_switches > 0 else 0, as
\* the fraction <<numerator, denominator>>.
HitRatio_unguarded(n_hits, n_switches) == <<n_hits * 100, n_switches>>

HitRatio(n_hits, n_switches) ==
    IF n_switches > 0 THEN <<n_hits * 100, n_switches>> ELSE <<0, 1>>

\* while frame_idx < self.nFrames
LoopCond_off_by_one(idx, n) == idx < n - 1

LoopCond(idx, n) == idx < n

\* if t >= (frame_idx * self.frame_duration)
FrameDue_strictly_after(now, idx, fd) == now > idx * fd

FrameDue_with_tolerance(now, idx, fd) == now >= idx * fd - 1

FrameDue(now, idx, fd) == now >= idx * fd

\* frame_onsets.append(t)
OnsetStamp_second_reading(now, fd) == now + 1

OnsetStamp_frame_grid(now, fd) == (now \div fd) * fd

OnsetStamp(now, fd) == now

\* frame_idx += 1
NextFrameIdx_not_advanced(now, idx, fd) == idx

NextFrameIdx_from_clock(now, idx, fd) ==
    IF (now \div fd) + 1 > idx + 1 THEN (now \div fd) + 1 ELSE idx + 1

NextFrameIdx(now, idx, fd) == idx + 1

\* if kb.getKeys(keyList=[self.trigger_key], ...): scan_trigger_times.append(t)
LogTrigger_first_only(times, now, trig) ==
    IF trig /\ times = <<>> THEN Append(times, now) ELSE times

LogTrigger(times, now, trig) == IF trig THEN Append(times, now) ELSE times

\* fixation.update(now=t) stands inside the frame-due branch.
UpdatesFixation_every_tick(due) == TRUE

UpdatesFixation(due) == due

NewPresses_while_held(pressed, prev) == pressed

NewPresses(pressed, prev) == pressed \ prev

\* for key in pressed: if key.name not in prev_button_state:
\*     button_events.append((t, key.name))
RECURSIVE AppendPresses_at_next_onset(_, _, _)
AppendPresses_at_next_onset(events, now, keys) ==
    IF keys = {} THEN events
    ELSE LET k == CHOOSE x \in keys : TRUE
             stamp == IF FrameDue(now, frame_idx, frame_duration) THEN now
                      ELSE frame_idx * frame_duration
         IN  AppendPresses_at_next_onset(Append(events, <<stamp, k>>), now,
                                         keys \ {k})

RECURSIVE AppendPresses(_, _, _)
AppendPresses(events, now, keys) ==
    IF keys = {} THEN events
    ELSE LET k == CHOOSE x \in keys : TRUE
         IN  AppendPresses(Append(events, <<now, k>>), now, keys \ {k})

\* for idx, onset in enumerate(frame_onsets): ... (and the other lists)
CollectEvents_all_scheduled(onsets, slog, buttons, triggers) ==
    [i \in 1..nFrames |->
        <<IF i <= Len(onsets) THEN onsets[i] ELSE (i - 1) * frame_duration,
          "frame_onset", i - 1>>]
    \o [i \in 1..Len(slog) |-> <<slog[i][1], "fixation_color_switch", slog[i][2]>>]
    \o [i \in 1..Len(buttons) |-> <<buttons[i][1], "button_press", buttons[i][2]>>]
    \o [i \in 1..Len(triggers) |-> <<triggers[i], "scanner_trigger", trigger_key>>]

CollectEvents_buttons_first(onsets, slog, buttons, triggers) ==
    [i \in 1..Len(buttons) |-> <<buttons[i][1], "button_press", buttons[i][2]>>]
    \o [i \in 1..Len(onsets) |-> <<onsets[i], "frame_onset", i - 1>>]
    \o [i \in 1..Len(slog) |-> <<slog[i][1], "fixation_color_switch", slog[i][2]>>]
    \o [i \in 1..Len(triggers) |-> <<triggers[i], "scanner_trigger", trigger_key>>]

CollectEvents(onsets, slog, buttons, triggers) ==
    [i \in 1..Len(onsets) |-> <<onsets[i], "frame_onset", i - 1>>]
    \o [i \in 1..Len(slog) |-> <<slog[i][1], "fixation_color_switch", slog[i][2]>>]
    \o [i \in 1..Len(buttons) |-> <<buttons[i][1], "button_press", buttons[i][2]>>]
    \o [i \in 1..Len(triggers) |-> <<triggers[i], "scanner_trigger", trigger_key>>]

LogRows_results_swapped(events, slog, buttons) ==
    LET r == analyze_reaction_times(slog, buttons, MIN_RT, MAX_RT)
    IN  <<<<"Time", "Event", "Value">>>>
        \o events
        \o <<<<"result", "", <<"mean_rt", r.mean_rt>>>>,
             <<"result", "", <<"hits", r.n_hits, r.n_switches,
                              HitRatio(r.n_hits, r.n_switches)>>>>>>

LogRows(events, slog, buttons) ==
    LET r == analyze_reaction_times(slog, buttons, MIN_RT, MAX_RT)
    IN  <<<<"Time", "Event", "Value">>>>
        \o events
        \o <<<<"result", "", <<"hits", r.n_hits, r.n_switches,
                              HitRatio(r.n_hits, r.n_switches)>>>>,
             <<"result", "", <<"mean_rt", r.mean_rt>>>>>>

\* The objects before anything has happened to them: no exception, no
\* call made, empty lists, the fixation marker as its constructor leaves it.
InitObjects ==
    /\ aborted = FALSE
    /\ exc = <<>>
    /\ outcome = <<>>
    /\ error_log = <<>>
    /\ win_close_calls = 0
    /\ et_calls = <<>>
    /\ t = <<>>
    /\ frame_idx = 0
    /\ frame_onsets = <<>>
    /\ button_events = <<>>
    /\ prev_button_state = {}
    /\ scan_trigger_times = <<>>
    /\ current_color = colors[1]
    /\ last_switch_time = <<>>
    /\ switch_log = <<>>
    /\ update_calls = 0
    /\ last_update = <<>>
    /\ rand_calls = 0
    /\ last_draw = <<>>
    /\ all_events = <<>>
    /\ log_file = <<>>
    /\ samples = <<>>
    /\ el_tracker = "None"
    /\ el_win = "None"
    /\ scn_width = "None"
    /\ tracker_log = <<>>

\* analyze_reaction_times has not been called on its own.
NoAnalysis ==
    /\ rt_switch_log = <<>>
    /\ rt_button_events = <<>>
    /\ rt_result = <<>>

Init ==
    /\ pc = "idle"
    /\ phase = "none"
    /\ win = "none"
    /\ nFrames \in 1..MaxFrames
    /\ frame_duration = MaxFrameDuration
    /\ hasET \in BOOLEAN
    /\ min_switch_interval \in {0, MaxInterval}
    /\ color_switch_prob \in SpecProbs
    /\ fixation_class = "FixationDot"
    /\ InitObjects
    /\ NoAnalysis

\* Environment events of the run so far: trigger and response key presses
\* seen by the main loop and exceptions raised by a collaborator.  A run is
\* explored with at most MaxEnvEvents of them.
EnvEvents ==
    Len(scan_trigger_times) + Len(button_events) + (IF exc = <<>> THEN 0 ELSE 1)

MayFail == EnvEvents < MaxEnvEvents

\* The scheduler state a position of run() belongs to; teardown keeps the
\* state it was entered from.
PhaseOf(p, old) ==
    IF p = "break_screen" THEN "break_screen"
    ELSE IF p \in {"et_connect", "et_calibrate", "et_drift", "start_screen",
                   "et_start", "et_msg_start"} THEN "preparing"
    ELSE IF p = "trigger_wait" THEN "awaiting_trigger"
    ELSE IF p \in {"msg_block_start", "msg_trialid", "msg_experiment_start",
                   "init_clock", "msg_stimulus_onset", "loop"} THEN "presenting"
    ELSE IF p = "end_screen" THEN "completing"
    ELSE old

\* An exception leaves run() before the try block is entered.
Propagate(e) ==
    /\ pc' = "done"
    /\ outcome' = <<"raised", e>>
    /\ UNCHANGED <<phase, aborted, exc, error_log>>

\* An exception inside the try block: `except Exception` logs it and
\* re-raises, which enters the finally block with the exception pending.
RaiseInTry(e) ==
    /\ pc' = "finally"
    /\ exc' = <<e>>
    /\ error_log' = Append(error_log, e)
    /\ UNCHANGED <<phase, aborted, outcome>>

Goto(p) ==
    /\ pc' = p
    /\ phase' = PhaseOf(p, phase)
    /\ UNCHANGED <<aborted, exc, outcome, error_log>>

\* self.fixation = self.fixation_class(self.win, **self.fixation_kwargs):
\* the marker as its constructor leaves it.
NewFixation_kept == UNCHANGED fixvars

NewFixation ==
    /\ current_color' = colors[1]
    /\ last_switch_time' = <<>>
    /\ switch_log' = <<>>
    /\ update_calls' = 0
    /\ last_update' = <<>>
    /\ rand_calls' = 0
    /\ last_draw' = <<>>

\* run() is entered, for the first time or again on the same presenter:
\* _setup_run creates the window and a new fixation.
SetupRun ==
    /\ pc \in {"idle", "done"}
    /\ aborted' = FALSE
    /\ exc' = <<>>
    /\ error_log' = <<>>
    /\ win_close_calls' = 0
    /\ et_calls' = <<>>
    /\ t' = <<>>
    /\ frame_idx' = 0
    /\ frame_onsets' = <<>>
    /\ button_events' = <<>>
    /\ prev_button_state' = {}
    /\ scan_trigger_times' = <<>>
    /\ all_events' = <<>>
    /\ log_file' = <<>>
    /\ \E ok \in BOOLEAN :
         IF ok
         THEN /\ win' = "open"
              /\ NewFixation
              /\ pc' = "break_screen"
              /\ phase' = "break_screen"
              /\ outcome' = <<>>
         ELSE /\ pc' = "done"
              /\ phase' = "none"
              /\ outcome' = <<"raised", "setup">>
              /\ UNCHANGED <<win, fixvars>>
    /\ UNCHANGED <<config, samples, rtvars, trkvars>>

\* Break screen: abort returns, space shows the fixation (update() without
\* now) and continues, enter continues, otherwise wait.
BreakScreen ==
    /\ pc = "break_screen"
    /\ \E key \in {"abort", "space", "enter"}, u \in Draws :
         IF key = "abort"
         THEN /\ pc' = "done"
              /\ outcome' = <<"returned">>
              /\ UNCHANGED <<phase, aborted, exc, error_log, fixvars>>
         ELSE /\ Goto(IF hasET THEN "et_connect" ELSE "start_screen")
              /\ IF key = "space" THEN MarkerUpdate(<<>>, u)
                 ELSE UNCHANGED fixvars
    /\ UNCHANGED <<config, samples, rtvars, trkvars, resvars, loopvars, logvars>>

\* Eye-tracker calls issued before the try block.
PreTrySteps_record_before_drift ==
    [et_connect |-> [call |-> "connect", next |-> "et_calibrate"],
     et_calibrate |-> [call |-> "calibrate", next |-> "et_drift"],
     et_drift |-> [call |-> "start_recording", next |-> "start_screen"],
     et_start |-> [call |-> "drift_correction", next |-> "et_msg_start"],
     et_msg_start |-> [call |-> "run about to start", next |-> "trigger_wait"]]

PreTrySteps ==
    [et_connect |-> [call |-> "connect", next |-> "et_calibrate"],
     et_calibrate |-> [call |-> "calibrate", next |-> "et_drift"],
     et_drift |-> [call |-> "drift_correction", next |-> "start_screen"],
     et_start |-> [call |-> "start_recording", next |-> "et_msg_start"],
     et_msg_start |-> [call |-> "run about to start", next |-> "trigger_wait"]]

EtSetup ==
    /\ pc \in DOMAIN PreTrySteps
    /\ et_calls' = Append(et_calls, PreTrySteps[pc].call)
    /\ \E ok \in BOOLEAN :
         IF ok THEN Goto(PreTrySteps[pc].next)
         ELSE MayFail /\ Propagate(PreTrySteps[pc].call)
    /\ UNCHANGED <<config, samples, rtvars, trkvars, win, win_close_calls, loopvars, fixvars, logvars>>

\* Start screen: fixation.update() is called without now.
StartScreen ==
    /\ pc = "start_screen"
    /\ \E u \in Draws : MarkerUpdate(<<>>, u)
    /\ Goto(IF hasET THEN "et_start" ELSE "trigger_wait")
    /\ UNCHANGED <<config, samples, rtvars, trkvars, resvars, loopvars, logvars>>

\* Where run() continues after the trigger wait: `if aborted: return`
\* enters the finally block, the trigger goes on to the markers and the
\* clock.
AfterTriggerWait_abort_as_trigger(key, et) ==
    IF et THEN "msg_block_start" ELSE "init_clock"

AfterTriggerWait(key, et) ==
    IF key = "abort" THEN "finally"
    ELSE IF et THEN "msg_block_start" ELSE "init_clock"

\* try: wait for the scanner trigger or the abort key.
TriggerWait ==
    /\ pc = "trigger_wait"
    /\ \E key \in {"abort", "trigger"} :
         /\ aborted' = (key = "abort")
         /\ pc' = AfterTriggerWait(key, hasET)
         /\ phase' = PhaseOf(AfterTriggerWait(key, hasET), phase)
         /\ UNCHANGED <<exc, outcome, error_log>>
    /\ UNCHANGED <<config, samples, rtvars, trkvars, resvars, loopvars, fixvars, logvars>>

\* Marker messages sent inside the try block before the main loop.
MarkerSteps_onset_unsent ==
    [msg_block_start |-> [call |-> "BLOCK_START", next |-> "msg_trialid"],
     msg_trialid |-> [call |-> "TRIALID", next |-> "msg_experiment_start"],
     msg_experiment_start |-> [call |-> "EXPERIMENT_START", next |-> "init_clock"],
     msg_stimulus_onset |-> [call |-> "EXPERIMENT_START", next |-> "loop"]]

MarkerSteps ==
    [msg_block_start |-> [call |-> "BLOCK_START", next |-> "msg_trialid"],
     msg_trialid |-> [call |-> "TRIALID", next |-> "msg_experiment_start"],
     msg_experiment_start |-> [call |-> "EXPERIMENT_START", next |-> "init_clock"],
     msg_stimulus_onset |-> [call |-> "stimulus_onset", next |-> "loop"]]

SendMarker ==
    /\ pc \in DOMAIN MarkerSteps
    /\ et_calls' = Append(et_calls, MarkerSteps[pc].call)
    /\ \E ok \in BOOLEAN :
         IF ok THEN Goto(MarkerSteps[pc].next)
         ELSE MayFail /\ RaiseInTry(MarkerSteps[pc].call)
    /\ UNCHANGED <<config, samples, rtvars, trkvars, win, win_close_calls, loopvars, fixvars, logvars>>

\* global_clock = core.Clock() and the empty per-run lists.
InitClock ==
    /\ pc = "init_clock"
    /\ t' = <<>>
    /\ frame_onsets' = <<>>
    /\ button_events' = <<>>
    /\ prev_button_state' = {}
    /\ frame_idx' = 0
    /\ scan_trigger_times' = <<>>
    /\ Goto(IF hasET THEN "msg_stimulus_onset" ELSE "loop")
    /\ UNCHANGED <<config, samples, rtvars, trkvars, resvars, fixvars, logvars>>

\* global_clock.getTime(): the readings a tick can get.  The clock starts
\* at 0; every iteration blocks in win.flip() or core.wait(0.001), so a
\* later reading is strictly larger than the previous one.
ClockReadings_not_strict(last) ==
    IF last = <<>> THEN 0..MaxLag ELSE last[1]..(last[1] + MaxStep)

ClockReadings(last) ==
    IF last = <<>> THEN 0..MaxLag ELSE (last[1] + 1)..(last[1] + MaxStep)

\* while frame_idx < nFrames: the loop is left when all frames are shown.
LoopExit ==
    /\ pc = "loop"
    /\ ~LoopCond(frame_idx, nFrames)
    /\ Goto("end_screen")
    /\ UNCHANGED <<config, samples, rtvars, trkvars, resvars, loopvars, fixvars, logvars>>

\* Where run() continues when the abort key is seen in the main loop:
\* `break` leaves the loop for the code that follows it.
AfterLoopAbort_continue == "loop"

AfterLoopAbort == "end_screen"

\* The abort key is seen at the top of an iteration: break.
LoopAbort ==
    /\ pc = "loop"
    /\ LoopCond(frame_idx, nFrames)
    /\ aborted' = TRUE
    /\ pc' = AfterLoopAbort
    /\ phase' = PhaseOf(AfterLoopAbort, phase)
    /\ UNCHANGED <<exc, outcome, error_log>>
    /\ UNCHANGED <<config, samples, rtvars, trkvars, resvars, loopvars, fixvars, logvars>>

\* The body of one iteration of the main loop without abort: now is the
\* clock reading, trig and pressed are what getKeys returns for the trigger
\* key and the response keys, u is the next random number, msg_ok is
\* whether send_message returns.
Iteration(now, trig, pressed, u, msg_ok) ==
         LET newkeys == NewPresses(pressed, prev_button_state)
         IN
         /\ t' = <<now>>
         /\ EnvEvents + (IF trig THEN 1 ELSE 0) + Cardinality(newkeys)
              + (IF msg_ok THEN 0 ELSE 1) <= MaxEnvEvents
         /\ scan_trigger_times' = LogTrigger(scan_trigger_times, now, trig)
         /\ et_calls' =
              IF trig /\ hasET THEN Append(et_calls, "scanner_trigger") ELSE et_calls
         /\ IF trig /\ hasET /\ ~msg_ok
            THEN /\ RaiseInTry("scanner_trigger")
                 /\ UNCHANGED <<frame_idx, frame_onsets, button_events,
                                prev_button_state, fixvars>>
            ELSE /\ msg_ok
                 /\ button_events' = AppendPresses(button_events, now, newkeys)
                 /\ prev_button_state' = pressed
                 /\ IF FrameDue(now, frame_idx, frame_duration)
                    THEN /\ frame_onsets' =
                              Append(frame_onsets, OnsetStamp(now, frame_duration))
                         /\ frame_idx' = NextFrameIdx(now, frame_idx, frame_duration)
                    ELSE UNCHANGED <<frame_idx, frame_onsets>>
                 /\ IF UpdatesFixation(FrameDue(now, frame_idx, frame_duration))
                    THEN MarkerUpdate(<<now>>, u)
                    ELSE UNCHANGED fixvars
                 /\ Goto("loop")

\* One full iteration of the main loop without abort.
LoopTick ==
    /\ pc = "loop"
    /\ LoopCond(frame_idx, nFrames)
    /\ \E now \in ClockReadings(t), trig \in BOOLEAN,
          pressed \in SUBSET button_keys, u \in Draws,
          msg_ok \in BOOLEAN :
         /\ now <= MaxClock
         /\ Iteration(now, trig, pressed, u, msg_ok)
    /\ UNCHANGED <<config, samples, rtvars, trkvars, win, win_close_calls, logvars>>

\* Any other exception raised inside an iteration of the main loop.
LoopRaise ==
    /\ pc = "loop"
    /\ LoopCond(frame_idx, nFrames)
    /\ MayFail
    /\ RaiseInTry("presenting")
    /\ UNCHANGED <<config, samples, rtvars, trkvars, resvars, loopvars, fixvars, logvars>>

\* The end-of-experiment markers, sent in this order after the end screen.
EndMarkers == <<"TRIAL_RESULT", "BLOCK_END", "EXPERIMENT_END">>

\* After the loop: end screen, end markers, event collection and sort,
\* log file with the two result rows.  `failed` is the number of the end
\* marker whose send raises (0: none); open() of the log file may raise.
Complete ==
    /\ pc = "end_screen"
    /\ \E failed \in 0..Len(EndMarkers), save_ok \in BOOLEAN :
         /\ ~hasET => failed = 0
         /\ failed > 0 => save_ok
         /\ (failed > 0 \/ ~save_ok) => MayFail
         /\ et_calls' =
              IF ~hasET THEN et_calls
              ELSE et_calls \o SubSeq(EndMarkers, 1,
                                      IF failed = 0 THEN Len(EndMarkers) ELSE failed)
         /\ IF failed > 0
            THEN /\ RaiseInTry(EndMarkers[failed])
                 /\ UNCHANGED <<logvars, switch_log, button_events>>
            ELSE /\ all_events' =
                      SortByTime(CollectEvents(frame_onsets,
                                               SwitchLogOf(switch_log),
                                               button_events, scan_trigger_times))
                 /\ IF save_ok
                    THEN /\ log_file' = LogRows(all_events', SwitchLogOf(switch_log),
                                                button_events)
                         /\ switch_log' =
                              InputsAfterAnalysis(switch_log, button_events).switch_log
                         /\ button_events' =
                              InputsAfterAnalysis(switch_log, button_events).button_events
                         /\ Goto("finally")
                    ELSE /\ RaiseInTry("save")
                         /\ UNCHANGED <<log_file, switch_log, button_events>>
    /\ UNCHANGED <<config, samples, rtvars, trkvars, win, win_close_calls, t, frame_idx,
                   frame_onsets, prev_button_state, scan_trigger_times,
                   current_color, last_switch_time, update_calls, last_update,
                   rand_calls, last_draw>>

\* The eye-tracker part of the finally block.  `fails` is the set of calls
\* that raise when they are made.  Result: the calls made, in order, and
\* the exception that leaves the block (<<>>: none).
\*   send_message("stimulus_end")            -- not guarded
\*   try: stop_recording() except: pass
\*   try: download_data() finally: close()
EtTeardown_close_twice(fails) ==
    IF "stimulus_end" \in fails
    THEN [calls |-> <<"stimulus_end">>, raised |-> <<"stimulus_end">>]
    ELSE [calls |-> <<"stimulus_end", "stop_recording", "download_data",
                      "close", "close">>,
          raised |-> IF "close" \in fails THEN <<"close">>
                     ELSE IF "download_data" \in fails THEN <<"download_data">>
                     ELSE <<>>]

EtTeardown(fails) ==
    IF "stimulus_end" \in fails
    THEN [calls |-> <<"stimulus_end">>, raised |-> <<"stimulus_end">>]
    ELSE [calls |-> <<"stimulus_end", "stop_recording", "download_data", "close">>,
          raised |-> IF "close" \in fails THEN <<"close">>
                     ELSE IF "download_data" \in fails THEN <<"download_data">>
                     ELSE <<>>]

TeardownCalls == {"stimulus_end", "stop_recording", "download_data", "close"}

\* finally: eye-tracker shutdown, then the window is closed last.  An
\* exception raised here replaces the pending one.
Teardown ==
    /\ pc = "finally"
    /\ \E fails \in SUBSET TeardownCalls :
         LET et == IF hasET THEN EtTeardown(fails)
                   ELSE [calls |-> <<>>, raised |-> <<>>]
         IN
         /\ ~hasET => fails = {}
         /\ EnvEvents + Cardinality(fails) <= MaxEnvEvents
         /\ et_calls' = et_calls \o et.calls
         /\ pc' = "done"
         /\ IF et.raised # <<>>
            THEN /\ outcome' = <<"raised", et.raised[1]>>
                 /\ UNCHANGED <<win, win_close_calls>>
            ELSE /\ win_close_calls' = win_close_calls + 1
                 /\ win' = "closed"
                 /\ outcome' = IF exc = <<>> THEN <<"returned">>
                               ELSE <<"raised", exc[1]>>
    /\ UNCHANGED <<phase, aborted, exc, error_log>>
    /\ UNCHANGED <<config, samples, rtvars, trkvars, loopvars, fixvars, logvars>>

Next ==
    \/ SetupRun
    \/ BreakScreen
    \/ EtSetup
    \/ StartScreen
    \/ TriggerWait
    \/ SendMarker
    \/ InitClock
    \/ LoopExit
    \/ LoopAbort
    \/ LoopTick
    \/ LoopRaise
    \/ Complete
    \/ Teardown

Spec == Init /\ [][Next]_vars

\* ------------------------------------------- the fixation marker alone
\* A marker outside a run, for every configuration of min_switch_interval
\* (negative, zero, positive) and color_switch_prob (0 to 1).
InitFixation ==
    /\ pc = "idle"
    /\ phase = "none"
    /\ win = "none"
    /\ nFrames = 1
    /\ frame_duration = MaxFrameDuration
    /\ hasET = FALSE
    /\ min_switch_interval \in (-1)..MaxInterval
    /\ color_switch_prob \in Probs
    /\ fixation_class = "FixationDot"
    /\ InitObjects
    /\ NoAnalysis

\* update(now) is called with any now that is not smaller than the now of
\* the call before.
FixationCall ==
    /\ pc = "idle"
    /\ update_calls < MaxCalls
    /\ \E now \in (IF last_update = <<>> THEN 0 ELSE last_update[1])..MaxNow,
          u \in Draws :
         FixationUpdate(<<now>>, u)
    /\ UNCHANGED <<ctlvars, config, resvars, loopvars, logvars, samples, rtvars,
                   trkvars>>

NextFixation == FixationCall

SpecFixation == InitFixation /\ [][NextFixation]_vars

\* --------------------------------------- analyze_reaction_times alone
\* Event times of the analysed lists: the window bounds MIN_RT and MAX_RT
\* are met exactly (10 to 13, 10 to 40), missed from below (50 to 51) and
\* from above (10 to 50).
RtTimes == {10, 13, 15, 40, 50, 51}

RECURSIVE SeqsUpTo(_, _)
SeqsUpTo(S, n) ==
    IF n = 0 THEN {<<>>}
    ELSE LET shorter == SeqsUpTo(S, n - 1)
         IN  shorter \cup {Append(q, x) : q \in shorter, x \in S}

\* Any switch log of up to MaxRtSwitches entries, colors alternating from
\* colors[1] on as the marker writes them, and any list of up to
\* MaxRtButtons button events, in any order of time.
InitRT ==
    /\ pc = "idle"
    /\ phase = "none"
    /\ win = "none"
    /\ nFrames = 1
    /\ frame_duration = MaxFrameDuration
    /\ hasET = FALSE
    /\ min_switch_interval = MaxInterval
    /\ color_switch_prob \in SpecProbs
    /\ fixation_class = "FixationDot"
    /\ InitObjects
    /\ \E times \in SeqsUpTo(RtTimes, MaxRtSwitches) :
         rt_switch_log =
            [i \in 1..Len(times) |->
                <<times[i], IF i % 2 = 1 THEN colors[2] ELSE colors[1]>>]
    /\ \E times \in SeqsUpTo(RtTimes, MaxRtButtons) :
         rt_button_events =
            [i \in 1..Len(times) |-> <<times[i], CHOOSE k \in button_keys : TRUE>>]
    /\ rt_result = <<>>

\* analyze_reaction_times(switch_log, button_events) with the default window.
AnalyzeCall ==
    /\ rt_result = <<>>
    /\ rt_result' = <<analyze_reaction_times(rt_switch_log, rt_button_events,
                                             MIN_RT, MAX_RT)>>
    /\ rt_switch_log' =
         InputsAfterAnalysis(rt_switch_log, rt_button_events).switch_log
    /\ rt_button_events' =
         InputsAfterAnalysis(rt_switch_log, rt_button_events).button_events
    /\ UNCHANGED <<ctlvars, config, resvars, loopvars, fixvars, logvars, samples,
                   trkvars>>

NextRT == AnalyzeCall

SpecRT == InitRT /\ [][NextRT]_vars

\* --------------------------------- the key sampling of the main loop alone
\* The response keys of the runs whose key sampling is explored.
gate_keys == {"1", "2"}

\* A run without eye tracker that has just initialised its clock and lists.
InitGate ==
    /\ pc = "loop"
    /\ phase = "presenting"
    /\ win = "open"
    /\ nFrames = MaxFrames
    /\ frame_duration = MaxFrameDuration
    /\ hasET = FALSE
    /\ min_switch_interval = MaxInterval
    /\ color_switch_prob \in SpecProbs
    /\ fixation_class = "FixationDot"
    /\ InitObjects
    /\ NoAnalysis

\* The key sampling of one iteration that does not see the abort key:
\* clock reading, trigger logging, response-key logging, for any sample of
\* the trigger key and of the response keys.  samples records what
\* getKeys returned on each tick.
InputGateTick ==
    /\ pc = "loop"
    /\ Len(samples) < MaxTicks
    /\ \E now \in ClockReadings(t), trig \in BOOLEAN,
          pressed \in SUBSET gate_keys :
         /\ t' = <<now>>
         /\ scan_trigger_times' = LogTrigger(scan_trigger_times, now, trig)
         /\ button_events' =
              AppendPresses(button_events, now,
                            NewPresses(pressed, prev_button_state))
         /\ prev_button_state' = pressed
         /\ samples' = Append(samples, [now |-> now, trig |-> trig,
                                        pressed |-> pressed])
    /\ UNCHANGED <<ctlvars, config, resvars, frame_idx, frame_onsets,
                   fixvars, logvars, rtvars, trkvars>>

NextGate == InputGateTick \/ LoopAbort

SpecGate == InitGate /\ [][NextGate]_vars

\* ------------------------------- the main loop under a clock on the grid
\* A run without eye tracker that has just initialised its clock and
\* lists, for every number of frames and every frame duration.
InitGrid ==
    /\ pc = "loop"
    /\ phase = "presenting"
    /\ win = "open"
    /\ nFrames \in 1..MaxFrames
    /\ frame_duration \in 1..MaxFrameDuration
    /\ hasET = FALSE
    /\ min_switch_interval \in {0, MaxInterval}
    /\ color_switch_prob \in SpecProbs
    /\ fixation_class = "FixationDot"
    /\ InitObjects
    /\ NoAnalysis

\* global_clock.getTime() of a clock that reads 0 on the first tick and
\* advances by exactly frame_duration from one tick to the next.
GridReading(last, fd) == IF last = <<>> THEN 0 ELSE last[1] + fd

\* One full iteration of the main loop under that clock.
GridTick ==
    /\ pc = "loop"
    /\ LoopCond(frame_idx, nFrames)
    /\ \E trig \in BOOLEAN, pressed \in SUBSET button_keys, u \in Draws,
          msg_ok \in BOOLEAN :
         Iteration(GridReading(t, frame_duration), trig, pressed, u, msg_ok)
    /\ UNCHANGED <<config, samples, rtvars, trkvars, win, win_close_calls, logvars>>

NextGrid == GridTick \/ LoopExit

SpecGrid == InitGrid /\ [][NextGrid]_vars

\* ------------------------------------- the main loop to the end of run()
\* A run without eye tracker that has just initialised its clock and
\* lists, with a marker class that keeps a switch log (FixationDot) or one
\* that keeps none (ABCTargetFixation).
InitFair ==
    /\ pc = "loop"
    /\ phase = "presenting"
    /\ win = "open"
    /\ nFrames \in 1..MaxFrames
    /\ frame_duration = MaxFrameDuration
    /\ hasET = FALSE
    /\ min_switch_interval = MaxInterval
    /\ color_switch_prob \in SpecProbs
    /\ fixation_class \in {"FixationDot", "ABCTargetFixation"}
    /\ InitObjects
    /\ NoAnalysis

NextFair == LoopTick \/ LoopExit \/ LoopAbort \/ Complete \/ Teardown

\* The steps of Complete by the positions they lead from and to: the code
\* after the loop runs from the end screen into the finally block, by the
\* end of the try block or by an exception.
LeaveEndScreen == pc = "end_screen" /\ pc' = "finally"

\* run() is one thread of control: as long as the calls it blocks in
\* (win.flip, core.wait, getKeys, open) return, the statement it stands at
\* is executed.  The abort key is an input and may or may not be pressed.
SpecFair ==
    /\ InitFair
    /\ [][NextFair]_vars
    /\ WF_vars(LoopTick)
    /\ WF_vars(LoopExit)
    /\ WF_pc(LeaveEndScreen)
    /\ WF_vars(Teardown)

\* ------------------------------------- run() called again on a presenter
\* What a completed first run without eye tracker leaves behind: frames
\* presented at 0, frame_duration, ...; the trigger seen and the response
\* key pressed on the first tick and held to the last; the marker switched
\* with the first frame and not again; the log written, the window closed.
FirstRunLeft ==
    /\ pc = "done"
    /\ phase = "completing"
    /\ aborted = FALSE
    /\ exc = <<>>
    /\ outcome = <<"returned">>
    /\ error_log = <<>>
    /\ win = "closed"
    /\ win_close_calls = 1
    /\ et_calls = <<>>
    /\ t = <<(nFrames - 1) * frame_duration>>
    /\ frame_idx = nFrames
    /\ frame_onsets = [k \in 1..nFrames |-> (k - 1) * frame_duration]
    /\ button_events = <<<<0, CHOOSE k \in button_keys : TRUE>>>>
    /\ prev_button_state = {CHOOSE k \in button_keys : TRUE}
    /\ scan_trigger_times = <<0>>
    /\ current_color = Toggle(colors[1])
    /\ last_switch_time = <<0>>
    /\ switch_log = <<<<0, Toggle(colors[1])>>>>
    /\ update_calls = nFrames
    /\ last_update = <<(nFrames - 1) * frame_duration>>
    /\ rand_calls = nFrames
    /\ last_draw = <<IF nFrames = 1 THEN 0 ELSE Resolution - 1>>
    /\ all_events = SortByTime(CollectEvents(frame_onsets, switch_log,
                                             button_events, scan_trigger_times))
    /\ log_file = LogRows(all_events, switch_log, button_events)

InitRerun ==
    /\ nFrames \in 1..MaxFrames
    /\ frame_duration = MaxFrameDuration
    /\ hasET = FALSE
    /\ min_switch_interval = MaxInterval
    /\ color_switch_prob \in SpecProbs
    /\ fixation_class = "FixationDot"
    /\ FirstRunLeft
    /\ samples = <<>>
    /\ el_tracker = "None"
    /\ el_win = "None"
    /\ scn_width = "None"
    /\ tracker_log = <<>>
    /\ NoAnalysis

\* The steps of run() on a presenter without eye tracker.
NextRerun ==
    \/ SetupRun
    \/ BreakScreen
    \/ StartScreen
    \/ TriggerWait
    \/ InitClock
    \/ LoopExit
    \/ LoopAbort
    \/ LoopTick
    \/ LoopRaise
    \/ Complete
    \/ Teardown

SpecRerun == InitRerun /\ [][NextRerun]_vars

\* ------------------------------------------ EyeLinkTracker (eyetracking.py)
\* The guard at the head of a method: the call is rejected with
\* RuntimeError before anything else is done.
\*   calibrate, start_recording, download_data: if self.el_tracker is None
\*   drift_correction: if self.el_tracker is None or self.scn_width is None
Rejects_drift_checks_link_only(call, el, scn) ==
    /\ call \in {"calibrate", "start_recording", "download_data",
                 "drift_correction"}
    /\ el = "None"

Rejects(call, el, scn) ==
    \/ /\ call \in {"calibrate", "start_recording", "download_data"}
       /\ el = "None"
    \/ /\ call = "drift_correction"
       /\ el = "None" \/ scn = "None"

\* close(): try: if self.el_tracker is not None: self.el_tracker.close()
\*          finally: self.el_tracker = None
ElAfterClose_without_finally(el, close_ok) == IF close_ok THEN "None" ELSE el

ElAfterClose(el, close_ok) == "None"

\* A call is over: its name, how it ended ("returned", "RuntimeError"
\* raised by the method itself, "LinkError" raised by pylink and passed
\* on) and whether it used the link.
Ends(name, how, used) ==
    tracker_log' = Append(tracker_log, [call |-> name, outcome |-> how,
                                        link_used |-> used])

\* A rejected call leaves every attribute as it was.
Rejected(name) ==
    /\ Ends(name, "RuntimeError", FALSE)
    /\ UNCHANGED <<el_tracker, el_win, scn_width>>

CanCall == Len(tracker_log) < MaxTrackerCalls

OtherVars ==
    <<ctlvars, config, resvars, loopvars, fixvars, logvars, samples, rtvars>>

\* connect(): pylink.EyeLink(...) may raise (el_tracker is not assigned);
\* once assigned, isConnected() may be false (RuntimeError) and a
\* configuration command may raise.
TrackerConnect ==
    /\ CanCall
    /\ \E res \in {"refused", "not_connected", "command_fails", "ok"} :
         /\ el_tracker' = IF res = "refused" THEN el_tracker ELSE "EyeLink"
         /\ Ends("connect",
                 IF res = "ok" THEN "returned"
                 ELSE IF res = "not_connected" THEN "RuntimeError"
                 ELSE "LinkError",
                 TRUE)
    /\ UNCHANGED <<el_win, scn_width, OtherVars>>

\* calibrate(win): win and the screen size are stored before the link is
\* used; a RuntimeError of doTrackerSetup is caught, any other failure of
\* the link or the graphics is passed on.
TrackerCalibrate ==
    /\ CanCall
    /\ IF Rejects("calibrate", el_tracker, scn_width)
       THEN Rejected("calibrate")
       ELSE /\ el_win' = "win"
            /\ scn_width' = "set"
            /\ \E res \in {"ok", "setup_aborted", "command_fails"} :
                 Ends("calibrate",
                      IF res = "command_fails" THEN "LinkError" ELSE "returned",
                      TRUE)
            /\ UNCHANGED el_tracker
    /\ UNCHANGED OtherVars

\* drift_correction(): a RuntimeError of doDriftCorrect is caught.
TrackerDriftCorrection ==
    /\ CanCall
    /\ IF Rejects("drift_correction", el_tracker, scn_width)
       THEN Rejected("drift_correction")
       ELSE /\ Ends("drift_correction", "returned", TRUE)
            /\ UNCHANGED <<el_tracker, el_win, scn_width>>
    /\ UNCHANGED OtherVars

\* start_recording(): raises RuntimeError when the tracker does not report
\* recording; a failing link command is passed on.
TrackerStartRecording ==
    /\ CanCall
    /\ IF Rejects("start_recording", el_tracker, scn_width)
       THEN Rejected("start_recording")
       ELSE /\ \E res \in {"ok", "not_recording", "command_fails"} :
                 Ends("start_recording",
                      IF res = "ok" THEN "returned"
                      ELSE IF res = "not_recording" THEN "RuntimeError"
                      ELSE "LinkError",
                      TRUE)
            /\ UNCHANGED <<el_tracker, el_win, scn_width>>
    /\ UNCHANGED OtherVars

\* stop_recording(): returns at once without a link; a RuntimeError of
\* stopRecording is caught.
TrackerStopRecording ==
    /\ CanCall
    /\ Ends("stop_recording", "returned", el_tracker # "None")
    /\ UNCHANGED <<el_tracker, el_win, scn_width, OtherVars>>

\* send_message(msg): sends only with a link; sendMessage may raise.
TrackerSendMessage ==
    /\ CanCall
    /\ IF el_tracker # "None"
       THEN \E ok \in BOOLEAN :
               Ends("send_message", IF ok THEN "returned" ELSE "LinkError", TRUE)
       ELSE Ends("send_message", "returned", FALSE)
    /\ UNCHANGED <<el_tracker, el_win, scn_width, OtherVars>>

\* download_data(name): RuntimeErrors of closeDataFile and receiveDataFile
\* are caught; a failure of the commands before them is passed on.
TrackerDownloadData ==
    /\ CanCall
    /\ IF Rejects("download_data", el_tracker, scn_width)
       THEN Rejected("download_data")
       ELSE /\ \E res \in {"ok", "transfer_fails", "command_fails"} :
                 Ends("download_data",
                      IF res = "command_fails" THEN "LinkError" ELSE "returned",
                      TRUE)
            /\ UNCHANGED <<el_tracker, el_win, scn_width>>
    /\ UNCHANGED OtherVars

\* close(): closes the link if there is one, which may raise; el_tracker
\* is set to None in the finally clause.
TrackerClose ==
    /\ CanCall
    /\ \E close_ok \in BOOLEAN :
         /\ el_tracker = "None" => close_ok
         /\ el_tracker' = ElAfterClose(el_tracker, close_ok)
         /\ Ends("close", IF close_ok THEN "returned" ELSE "LinkError",
                 el_tracker # "None")
    /\ UNCHANGED <<el_win, scn_width, OtherVars>>

\* A tracker as its constructor leaves it, outside any run.
InitTracker ==
    /\ pc = "idle"
    /\ phase = "none"
    /\ win = "none"
    /\ nFrames = 1
    /\ frame_duration = MaxFrameDuration
    /\ hasET = TRUE
    /\ min_switch_interval = MaxInterval
    /\ color_switch_prob \in SpecProbs
    /\ fixation_class = "FixationDot"
    /\ InitObjects
    /\ NoAnalysis

NextTracker ==
    \/ TrackerConnect
    \/ TrackerCalibrate
    \/ TrackerDriftCorrection
    \/ TrackerStartRecording
    \/ TrackerStopRecording
    \/ TrackerSendMessage
    \/ TrackerDownloadData
    \/ TrackerClose

SpecTracker == InitTracker /\ [][NextTracker]_vars

\* ------------------------------------------------------------ claims
OfKind(rows, kind) == SelectSeq(rows, LAMBDA r : r[2] = kind)

Count(s, x) == Cardinality({i \in 1..Len(s) : s[i] = x})

\* run() returned after the loop was left with all frames presented.
NormalCompletion ==
    /\ pc = "done"
    /\ outcome = <<"returned">>
    /\ phase = "completing"
    /\ ~aborted

\* The frame_onset events of a log are numbered 0, 1, ..., n-1 in order.
NumberedOnsets(rows, n) ==
    LET f == OfKind(rows, "frame_onset")
    IN  /\ Len(f) = n
        /\ \A i \in 1..Len(f) : f[i][3] = i - 1

\* C1: on normal completion of run() with N frames the event log holds
\* exactly N frame_onset events, valued 0, 1, ..., N-1 in that order.
C1_CompletionLogsAllFrames ==
    NormalCompletion =>
        /\ NumberedOnsets(all_events, nFrames)
        /\ NumberedOnsets(log_file, nFrames)

C1_Witness ==
    /\ NormalCompletion
    /\ nFrames = MaxFrames
    /\ Len(OfKind(log_file, "frame_onset")) = MaxFrames

\* C2: every recorded frame onset is at least frame_index * frame_duration,
\* counted from the clock origin; a tick presents a frame only if its clock
\* reading t satisfies t >= frame_index * frame_duration.
C2_OnsetNotBeforeDue ==
    /\ [](\A i \in 1..Len(frame_onsets) :
            frame_onsets[i] >= (i - 1) * frame_duration)
    /\ [][(pc = "loop" /\ frame_idx' = frame_idx + 1)
            => t'[1] >= frame_idx * frame_duration]_vars

\* A late frame 0 followed by frame 1 less than frame_duration later: the
\* due time is not counted from the previous frame.
C2_Witness ==
    /\ Len(frame_onsets) >= 2
    /\ frame_onsets[1] > 0
    /\ frame_onsets[2] - frame_onsets[1] < frame_duration

\* C3: the frame onset timestamps are strictly increasing, also when late
\* frames are presented on consecutive ticks.
C3_OnsetsStrictlyIncreasing ==
    \A i \in 1..Len(frame_onsets) : \A j \in 1..Len(frame_onsets) :
        i < j => frame_onsets[i] < frame_onsets[j]

\* Two late frames presented on consecutive ticks within one frame period.
C3_Witness ==
    /\ Len(frame_onsets) >= 2
    /\ frame_onsets[2] > frame_duration
    /\ frame_onsets[2] \div frame_duration = frame_onsets[1] \div frame_duration

\* C4: no frame is skipped.  The presented frames are 0..frame_idx-1, once
\* each and in order, 0 <= frame_idx <= N; a tick presents at most one
\* frame and frame_idx grows by exactly one with it; a tick whose reading
\* has reached the due time presents the frame (it does not sleep).
C4_NeverSkipsFrames ==
    /\ [](/\ frame_idx \in 0..nFrames
          /\ Len(frame_onsets) = frame_idx
          /\ NumberedOnsets(CollectEvents(frame_onsets, switch_log,
                                          button_events, scan_trigger_times),
                            frame_idx))
    /\ [][(pc = "loop" /\ pc' = "loop" /\ t' # t) =>
            IF t'[1] >= frame_idx * frame_duration
            THEN /\ frame_idx' = frame_idx + 1
                 /\ frame_onsets' = Append(frame_onsets, t'[1])
            ELSE /\ frame_idx' = frame_idx
                 /\ frame_onsets' = frame_onsets]_vars

\* The loop was two frames behind schedule and then presented the late
\* frames one per tick.
C4_Witness ==
    /\ Len(frame_onsets) >= 2
    /\ frame_onsets[1] >= frame_duration
    /\ frame_onsets[2] = frame_onsets[1] + 1

\* The abort key was seen in the main loop and the run went on to its end.
AbortedWhilePresenting ==
    /\ aborted
    /\ phase = "completing"
    /\ pc \in {"finally", "done"}
    /\ exc = <<>>

\* C5: when the abort key is seen during Presenting after k frames were
\* presented (0 <= k < N), the persisted log holds exactly k frame_onset
\* events.
C5_AbortLogsPresentedFrames ==
    AbortedWhilePresenting =>
        /\ frame_idx < nFrames
        /\ log_file # <<>>
        /\ NumberedOnsets(log_file, frame_idx)

C5_Witness ==
    /\ AbortedWhilePresenting
    /\ pc = "done"
    /\ frame_idx = 1
    /\ nFrames = 2
    /\ Len(OfKind(log_file, "frame_onset")) = 1

\* The finally block of run() was entered with an eye tracker attached.
EtTeardownEntered == hasET /\ Count(et_calls, "stimulus_end") >= 1

\* C6: on every exit path of run() after the window was created, the window
\* close is attempted and, with an eye tracker attached, its shutdown is
\* attempted before run() returns or raises.
C6_TeardownOnEveryExit ==
    (pc = "done" /\ phase # "none") =>
        /\ win_close_calls >= 1
        /\ hasET => Count(et_calls, "close") >= 1

\* C7: in teardown with an eye tracker, the end-of-stimulus marker, the
\* stop of the recording and the download of the data file are attempted
\* independently of each other's failure.
C7_CleanupActionsIndependent ==
    (pc = "done" /\ EtTeardownEntered) =>
        /\ Count(et_calls, "stop_recording") >= 1
        /\ Count(et_calls, "download_data") >= 1

\* C8: the window close is attempted whatever eye-tracker teardown step
\* raises, and the eye-tracker close() is attempted whenever download_data
\* was attempted.
C8_ReleasesIndependent ==
    (pc = "done" /\ EtTeardownEntered) =>
        /\ win_close_calls >= 1
        /\ Count(et_calls, "download_data") >= 1 => Count(et_calls, "close") >= 1

\* C9: an exception raised during Presenting is logged and re-raised to the
\* caller of run() after teardown has run, and the caller receives that
\* exception.
C9_OriginalExceptionReraised ==
    (pc = "done" /\ exc # <<>>) =>
        /\ Count(error_log, exc[1]) = 1
        /\ outcome = <<"raised", exc[1]>>
        /\ win_close_calls = 1
        /\ hasET => Count(et_calls, "close") = 1

TeardownActions == {"stimulus_end", "stop_recording", "download_data", "close"}

\* run() returned (completed or aborted) after it had reached the trigger wait.
ReturnedAfterTriggerWait ==
    /\ pc = "done"
    /\ outcome = <<"returned">>
    /\ phase \in {"awaiting_trigger", "completing"}

\* C10: teardown is triggered exactly once per run.  No teardown action is
\* ever performed twice in a run, and a run that reached the trigger wait
\* and returns (completed, aborted before the trigger, aborted while
\* presenting) has performed each of them exactly once: stimulus_end,
\* stop_recording, download_data and close with an eye tracker attached,
\* and the window close.
C10_TeardownExactlyOnce ==
    /\ win_close_calls <= 1
    /\ \A a \in TeardownActions : Count(et_calls, a) <= 1
    /\ ReturnedAfterTriggerWait =>
          /\ win_close_calls = 1
          /\ \A a \in TeardownActions :
                Count(et_calls, a) = (IF hasET THEN 1 ELSE 0)

\* An aborted run with an eye tracker, torn down.
C10_Witness ==
    /\ ReturnedAfterTriggerWait
    /\ aborted
    /\ hasET
    /\ phase = "completing"
    /\ win = "closed"

\* run() was aborted at the trigger wait.
AbortedBeforeTrigger == aborted /\ phase = "awaiting_trigger"

\* C11: while awaiting the trigger, the trigger key leads to Presenting and
\* the abort key to Aborted.  After an abort before the trigger no frame was
\* presented, no frame_onset, button or trigger event was recorded, no log
\* file was written, and the finally block is still executed: its first
\* action is attempted, and all of them when none of them raises.
C11_AbortBeforeTrigger ==
    /\ [][(pc = "trigger_wait" /\ pc' # pc) =>
            \/ aborted' /\ pc' = "finally" /\ phase' = "awaiting_trigger"
            \/ ~aborted' /\ phase' = "presenting"
                 /\ pc' \in {"msg_block_start", "init_clock"}]_vars
    /\ [](AbortedBeforeTrigger =>
            /\ pc \in {"finally", "done"}
            /\ exc = <<>>
            /\ frame_idx = 0
            /\ frame_onsets = <<>>
            /\ button_events = <<>>
            /\ scan_trigger_times = <<>>
            /\ all_events = <<>>
            /\ log_file = <<>>
            /\ pc = "done" =>
                 /\ IF hasET THEN Count(et_calls, "stimulus_end") = 1
                    ELSE win_close_calls = 1
                 /\ outcome = <<"returned">> =>
                      /\ win_close_calls = 1
                      /\ win = "closed"
                      /\ \A a \in TeardownActions :
                           Count(et_calls, a) = (IF hasET THEN 1 ELSE 0))

\* Aborted at the trigger wait with an eye tracker, torn down and returned.
C11_Witness ==
    /\ AbortedBeforeTrigger
    /\ pc = "done"
    /\ hasET
    /\ outcome = <<"returned">>
    /\ win = "closed"

\* C12: in every switch log produced by update(now) calls with
\* non-decreasing now, two consecutive entries are at least
\* min_switch_interval apart.
C12_SwitchesRespectInterval ==
    \A i \in 1..(Len(switch_log) - 1) :
        switch_log[i + 1][1] - switch_log[i][1] >= min_switch_interval

\* Two switches exactly min_switch_interval apart, and a call in between
\* that the interval made ineligible.
C12_Witness ==
    /\ min_switch_interval = MaxInterval
    /\ Len(switch_log) = 2
    /\ switch_log[2][1] - switch_log[1][1] = min_switch_interval
    /\ update_calls > rand_calls

\* C13: the timestamps of the switch log of a run are strictly increasing,
\* for min_switch_interval 0 as for a positive one.
C13_SwitchTimesStrictlyIncreasing ==
    \A i \in 1..Len(switch_log) : \A j \in 1..Len(switch_log) :
        i < j => switch_log[i][1] < switch_log[j][1]

\* Without a minimum interval the marker switched on two consecutive ticks.
C13_Witness ==
    /\ min_switch_interval = 0
    /\ Len(switch_log) >= 2
    /\ switch_log[2][1] = switch_log[1][1] + 1

\* C14: a call update(now) switches the color if and only if (there is no
\* prior switch or now - last_switch_time >= min_switch_interval) and the
\* random draw of that call is below color_switch_prob; in every other case
\* color, last_switch_time and switch log are unchanged, and no random
\* number is drawn when the interval condition fails.
C14_SwitchIffEligibleAndDraw ==
    [][update_calls' = update_calls + 1 =>
        LET now == last_update'[1]
            interval_ok == \/ last_switch_time = <<>>
                           \/ now - last_switch_time[1] >= min_switch_interval
            switched == /\ current_color' # current_color
                        /\ last_switch_time' = <<now>>
                        /\ Len(switch_log') = Len(switch_log) + 1
        IN  IF interval_ok
            THEN /\ rand_calls' = rand_calls + 1
                 /\ last_draw' # <<>>
                 /\ switched <=> last_draw'[1] < color_switch_prob
                 /\ switched \/ UNCHANGED <<current_color, last_switch_time,
                                            switch_log>>
            ELSE (UNCHANGED <<current_color, last_switch_time, switch_log,
                              rand_calls, last_draw>>)]_vars

\* After a switch: one call inside the minimum interval (no draw) and a
\* later eligible call whose draw was not below the probability.
C14_Witness ==
    /\ min_switch_interval > 0
    /\ color_switch_prob \in 1..(Resolution - 1)
    /\ Len(switch_log) = 1
    /\ update_calls = 3
    /\ rand_calls = 2
    /\ last_draw # <<>>
    /\ last_draw[1] >= color_switch_prob
    /\ last_update[1] - last_switch_time[1] >= min_switch_interval

\* C15: update() without now is a no-op: the calls at the break screen and
\* at the start screen leave color, last_switch_time and switch log
\* unchanged and draw no random number, so no switch-log entry exists
\* before the trigger.
C15_UpdateWithoutNowIsNoOp ==
    /\ [][(pc \in {"break_screen", "start_screen"}) => (UNCHANGED fixvars)]_vars
    /\ [](phase \in {"break_screen", "preparing", "awaiting_trigger"} =>
            /\ switch_log = <<>>
            /\ current_color = colors[1]
            /\ last_switch_time = <<>>
            /\ rand_calls = 0)

\* The start screen has called update() and the run waits for the trigger.
C15_Witness ==
    /\ pc = "trigger_wait"
    /\ switch_log = <<>>
    /\ update_calls = 0

\* C16: an accepted switch toggles between the two configured colors,
\* appends one entry (now, new color) and sets last_switch_time to now; the
\* log is append-only, consecutive entries carry different colors, the first
\* entry carries colors[1] (the second color) and the last entry carries the
\* current color.
C16_SwitchTogglesAndAppends ==
    /\ [][switch_log' # switch_log =>
            /\ switch_log' = Append(switch_log, <<last_update'[1], current_color'>>)
            /\ current_color' # current_color
            /\ last_switch_time' = <<last_update'[1]>>]_vars
    /\ [](/\ current_color \in {colors[1], colors[2]}
          /\ \A i \in 1..Len(switch_log) :
               switch_log[i][2] \in {colors[1], colors[2]}
          /\ \A i \in 1..(Len(switch_log) - 1) :
               switch_log[i][2] # switch_log[i + 1][2]
          /\ IF switch_log = <<>>
             THEN current_color = colors[1] /\ last_switch_time = <<>>
             ELSE /\ switch_log[1][2] = colors[2]
                  /\ switch_log[Len(switch_log)][2] = current_color
                  /\ last_switch_time = <<switch_log[Len(switch_log)][1]>>)

\* Three switches: second color, first color, second color.
C16_Witness ==
    /\ Len(switch_log) = 3
    /\ current_color = colors[2]

\* C17: with min_switch_interval <= 0 every call update(now) with
\* non-decreasing now draws a random number and switches exactly when the
\* draw is below color_switch_prob, whatever the time of the previous switch.
C17_NoIntervalEveryCallEligible ==
    [][(min_switch_interval <= 0 /\ update_calls' = update_calls + 1) =>
        /\ rand_calls' = rand_calls + 1
        /\ last_draw' # <<>>
        /\ switch_log' # switch_log <=> last_draw'[1] < color_switch_prob]_vars

\* Two switches at the same now with min_switch_interval 0.
C17_Witness ==
    /\ min_switch_interval = 0
    /\ Len(switch_log) >= 2
    /\ switch_log[2][1] = switch_log[1][1]

\* C18 as stated: update(now=t) is invoked once on every tick of the main
\* loop.
C18_UpdateOnEveryTick ==
    [][(pc = "loop" /\ pc' = "loop" /\ t' # t) =>
        /\ update_calls' = update_calls + 1
        /\ last_update' = t']_vars

\* C18, amended: update(now=t) is invoked once on every tick that presents
\* a frame and not on a tick that waits, so that during and after the
\* presentation the number of calls is the number of frames presented.
C18_UpdateOnFrameTicksOnly ==
    /\ [][(pc = "loop" /\ pc' = "loop" /\ t' # t) =>
            IF t'[1] >= frame_idx * frame_duration
            THEN /\ frame_idx' = frame_idx + 1
                 /\ update_calls' = update_calls + 1
                 /\ last_update' = t'
            ELSE /\ frame_idx' = frame_idx
                 /\ (UNCHANGED fixvars)]_vars
    /\ [](phase \in {"presenting", "completing"} => update_calls = frame_idx)

\* A tick that waited for frame 1: no update call was made on it.
C18_Witness ==
    /\ pc = "loop"
    /\ frame_idx = 1
    /\ update_calls = 1
    /\ t # <<>>
    /\ t[1] > frame_onsets[1]
    /\ last_update = <<frame_onsets[1]>>

\* The ticks on which key k was sampled as pressed and had not been on the
\* tick before: the starts of its continuous presses.
PressStarts(k) ==
    {i \in 1..Len(samples) :
        /\ k \in samples[i].pressed
        /\ (i = 1 \/ k \notin samples[i - 1].pressed)}

\* C19: for each response key and any sequence of per-tick key samples,
\* exactly one button event is recorded per continuous press, stamped with
\* the first tick on which the press is seen: a held press yields one event,
\* release and repress yield two.  The previous-tick set is replaced by the
\* sample of every tick.
C19_OneEventPerPress ==
    /\ \A k \in gate_keys :
         LET ev == SelectSeq(button_events, LAMBDA e : e[2] = k)
         IN  /\ Len(ev) = Cardinality(PressStarts(k))
             /\ {ev[i][1] : i \in 1..Len(ev)} =
                  {samples[i].now : i \in PressStarts(k)}
    /\ \A i \in 1..Len(button_events) : button_events[i][2] \in gate_keys
    /\ prev_button_state =
         IF samples = <<>> THEN {} ELSE samples[Len(samples)].pressed

\* The samples {1}, {1}, {}, {1} of key "1": events at tick 1 and tick 4.
C19_Witness ==
    /\ Len(samples) = 4
    /\ [i \in 1..4 |-> samples[i].pressed] = <<{"1"}, {"1"}, {}, {"1"}>>
    /\ button_events = <<<<samples[1].now, "1">>, <<samples[4].now, "1">>>>

\* The ticks on which the trigger key was sampled as pressed.
TriggerSamples == SelectSeq(samples, LAMBDA x : x.trig)

\* C20: scanner-trigger logging is level-triggered and independent of the
\* response-key edge detection: every tick that samples the trigger key as
\* pressed appends one trigger time, that tick's clock reading (m ticks
\* held: m entries); detecting the trigger or the abort key never changes
\* the previous-tick response-key set, which is the response-key sample of
\* the latest completed tick whatever the trigger sample was.
C20_TriggerLoggedEveryTick ==
    /\ [](scan_trigger_times =
            [i \in 1..Len(TriggerSamples) |-> TriggerSamples[i].now])
    /\ [][Len(samples') = Len(samples) + 1 =>
            LET x == samples'[Len(samples')]
            IN  /\ prev_button_state' = x.pressed
                /\ scan_trigger_times' =
                     (IF x.trig THEN Append(scan_trigger_times, x.now)
                      ELSE scan_trigger_times)
                /\ Len(button_events') - Len(button_events) =
                     Cardinality(x.pressed \ prev_button_state)]_vars
    /\ [][aborted' # aborted =>
            (UNCHANGED <<prev_button_state, button_events,
                         scan_trigger_times>>)]_vars

\* The trigger key held for three ticks while response key "1" is held:
\* three trigger entries, one button event.
C20_Witness ==
    /\ Len(samples) = 3
    /\ \A i \in 1..3 : samples[i].trig /\ samples[i].pressed = {"1"}
    /\ Len(scan_trigger_times) = 3
    /\ Len(button_events) = 1

\* The events of the run were collected and sorted (the end markers, if any,
\* were sent without error).
LogAssembled ==
    /\ phase = "completing"
    /\ pc \in {"finally", "done"}
    /\ exc \in {<<>>, <<"save">>}

\* The place of an event kind in the concatenation that is sorted.
KindRank(kind) ==
    CASE kind = "frame_onset" -> 1
      [] kind = "fixation_color_switch" -> 2
      [] kind = "button_press" -> 3
      [] kind = "scanner_trigger" -> 4

\* C21: the merged event log is the four lists concatenated and stable-sorted
\* by timestamp: it holds the events of each list, in that list's order and
\* nothing else; timestamps are non-decreasing; events with equal timestamps
\* stand in the order frame_onset, fixation_color_switch, button_press,
\* scanner_trigger.
C21_MergedLogStableSorted ==
    LogAssembled =>
        /\ Len(all_events) = Len(frame_onsets) + Len(switch_log)
                             + Len(button_events) + Len(scan_trigger_times)
        /\ OfKind(all_events, "frame_onset") =
             [i \in 1..Len(frame_onsets) |-> <<frame_onsets[i], "frame_onset", i - 1>>]
        /\ OfKind(all_events, "fixation_color_switch") =
             [i \in 1..Len(switch_log) |->
                <<switch_log[i][1], "fixation_color_switch", switch_log[i][2]>>]
        /\ OfKind(all_events, "button_press") =
             [i \in 1..Len(button_events) |->
                <<button_events[i][1], "button_press", button_events[i][2]>>]
        /\ OfKind(all_events, "scanner_trigger") =
             [i \in 1..Len(scan_trigger_times) |->
                <<scan_trigger_times[i], "scanner_trigger", trigger_key>>]
        /\ \A i \in 1..Len(all_events) : \A j \in 1..Len(all_events) :
             i < j =>
               /\ all_events[i][1] <= all_events[j][1]
               /\ all_events[i][1] = all_events[j][1] =>
                    KindRank(all_events[i][2]) <= KindRank(all_events[j][2])

\* A frame onset, a color switch, a button press and a trigger with one
\* timestamp, merged in that order.
C21_Witness ==
    /\ LogAssembled
    /\ Len(all_events) >= 4
    /\ \E i \in 1..(Len(all_events) - 3) :
         /\ all_events[i][2] = "frame_onset"
         /\ all_events[i + 1][2] = "fixation_color_switch"
         /\ all_events[i + 2][2] = "button_press"
         /\ all_events[i + 3][2] = "scanner_trigger"
         /\ all_events[i + 3][1] = all_events[i][1]

\* C22: sorting the merged log by time again yields the identical sequence,
\* the order of events with equal timestamps included.
C22_SortIdempotent ==
    LogAssembled => SortByTime(all_events) = all_events

\* A merged log with two events of one timestamp and a later event.
C22_Witness ==
    /\ LogAssembled
    /\ Len(all_events) >= 3
    /\ all_events[1][1] = all_events[2][1]
    /\ all_events[Len(all_events)][1] > all_events[1][1]

\* C23: in the persisted log the header is Time, Event, Value; the event
\* rows are the sorted merged log, row for row, in non-decreasing Time
\* order; the last two rows are the result rows, the hit-ratio summary and
\* then the mean-reaction-time summary.  A run that reaches the end of the
\* try block without exception has written the log.
C23_LogLayout ==
    /\ (LogAssembled /\ exc = <<>>) => log_file # <<>>
    /\ log_file # <<>> =>
         LET n == Len(log_file)
         IN  /\ n = Len(all_events) + 3
             /\ log_file[1] = <<"Time", "Event", "Value">>
             /\ \A i \in 1..Len(all_events) :
                  /\ log_file[i + 1][2] = all_events[i][2]
                  /\ log_file[i + 1] = all_events[i]
             /\ \A i \in 2..(n - 3) : log_file[i][1] <= log_file[i + 1][1]
             /\ log_file[n - 1][3][1] = "hits"
             /\ log_file[n][3][1] = "mean_rt"

\* A written log with at least three event rows, two of them at one time.
C23_Witness ==
    /\ pc = "done"
    /\ Len(log_file) >= 6
    /\ log_file[2][1] = log_file[3][1]
    /\ log_file[Len(log_file) - 2][1] > log_file[2][1]

EventKinds ==
    {"frame_onset", "fixation_color_switch", "button_press", "scanner_trigger",
     "result"}

\* C24: every data row of the persisted log, the two result rows included,
\* carries its event kind in the Event column (the second column).
C24_KindInEventColumn ==
    log_file # <<>> =>
        \A i \in 2..Len(log_file) : log_file[i][2] \in EventKinds

\* The latencies of the button presses that qualify for a switch at time
\* switch_time: button_time - switch_time within [MIN_RT, MAX_RT].
Qualifying(switch_time) ==
    {rt_button_events[j][1] - switch_time : j \in 1..Len(rt_button_events)}
        \cap MIN_RT..MAX_RT

\* The switches, by position in the switch log, with a qualifying press.
HitSwitches ==
    {i \in 1..Len(rt_switch_log) : Qualifying(rt_switch_log[i][1]) # {}}

SetMin(S) == CHOOSE x \in S : \A y \in S : x <= y

\* C25: analyze_reaction_times returns as hits the number of switches with
\* at least one button press of latency min_rt <= latency <= max_rt, both
\* bounds inclusive, and as switch count the length of the switch log;
\* switches at 1.0 and 5.0 with buttons at 1.5 and 5.1 give 1 hit of 2
\* switches and the mean 0.5.
C25_HitsAndSwitchCount ==
    rt_result # <<>> =>
        /\ rt_result[1].n_hits = Cardinality(HitSwitches)
        /\ rt_result[1].n_switches = Len(rt_switch_log)
        /\ ([i \in 1..Len(rt_switch_log) |-> rt_switch_log[i][1]] = <<10, 50>>
            /\ [j \in 1..Len(rt_button_events) |-> rt_button_events[j][1]] = <<15, 51>>)
           => /\ rt_result[1].n_hits = 1
              /\ rt_result[1].n_switches = 2
              /\ rt_result[1].mean_rt = <<5, 1>>

\* The example: switches at 1.0 and 5.0, buttons at 1.5 and 5.1, analysed.
C25_Witness ==
    /\ rt_result # <<>>
    /\ [i \in 1..Len(rt_switch_log) |-> rt_switch_log[i][1]] = <<10, 50>>
    /\ [j \in 1..Len(rt_button_events) |-> rt_button_events[j][1]] = <<15, 51>>
    /\ rt_result[1].n_hits = 1
    /\ rt_result[1].reaction_times = <<5>>

\* C26: for each switch that is a hit the recorded latency is that of the
\* earliest button press within the window, in whatever order the button
\* events are supplied; the list holds one latency per hit, in switch
\* order; its length is hits <= switch count, and every latency lies in
\* the window.
C26_FirstPressPerHit ==
    rt_result # <<>> =>
        LET r == rt_result[1]
            hits == SelectSeq([i \in 1..Len(rt_switch_log) |-> i],
                              LAMBDA i : i \in HitSwitches)
        IN  /\ r.reaction_times =
                 [k \in 1..Len(hits) |->
                     SetMin(Qualifying(rt_switch_log[hits[k]][1]))]
            /\ Len(r.reaction_times) = r.n_hits
            /\ r.n_hits <= r.n_switches
            /\ \A k \in 1..Len(r.reaction_times) :
                 MIN_RT <= r.reaction_times[k] /\ r.reaction_times[k] <= MAX_RT

\* Two qualifying presses supplied later one first: the earlier one counts.
C26_Witness ==
    /\ rt_result # <<>>
    /\ Len(rt_switch_log) = 1
    /\ Len(rt_button_events) = 2
    /\ rt_button_events[1][1] > rt_button_events[2][1]
    /\ Cardinality(Qualifying(rt_switch_log[1][1])) = 2
    /\ rt_result[1].reaction_times = <<rt_button_events[2][1] - rt_switch_log[1][1]>>

\* C27: matching is per switch, not one-to-one: every switch for which a
\* given press qualifies is a hit, and a single press that lies within the
\* window of two switches yields one latency for each.
C27_PressMatchesEverySwitch ==
    rt_result # <<>> =>
        /\ \A j \in 1..Len(rt_button_events) :
             LET served == {i \in 1..Len(rt_switch_log) :
                              rt_button_events[j][1] - rt_switch_log[i][1]
                                \in MIN_RT..MAX_RT}
             IN  /\ rt_result[1].n_hits >= Cardinality(served)
                 /\ Len(rt_button_events) = 1 =>
                      /\ rt_result[1].n_hits = Cardinality(served)
                      /\ \A i \in served :
                           \E k \in 1..Len(rt_result[1].reaction_times) :
                              rt_result[1].reaction_times[k] =
                                rt_button_events[j][1] - rt_switch_log[i][1]

\* One press within the window of two different switches: two hits.
C27_Witness ==
    /\ rt_result # <<>>
    /\ Len(rt_button_events) = 1
    /\ Len(rt_switch_log) = 2
    /\ rt_switch_log[1][1] # rt_switch_log[2][1]
    /\ rt_result[1].n_hits = 2
    /\ Len(rt_result[1].reaction_times) = 2

\* C28: the reaction-time analysis only reads its inputs.  The step of
\* run() that calls analyze_reaction_times leaves the switch log and the
\* button events as they were, so that the result rows of the log are the
\* analysis of the lists as they stand afterwards; and the switch log of a
\* run changes only by the fixation marker appending to it in update(now),
\* never by the scheduler or the analysis.
C28_AnalysisOnlyReads ==
    /\ [][pc = "end_screen" =>
            /\ switch_log' = switch_log
            /\ button_events' = button_events]_vars
    /\ [][(switch_log' # switch_log /\ pc # "done" /\ pc # "idle") =>
            /\ pc = "loop"
            /\ update_calls' = update_calls + 1
            /\ SubSeq(switch_log', 1, Len(switch_log)) = switch_log]_vars
    /\ [](log_file # <<>> =>
            LET r == analyze_reaction_times(switch_log, button_events,
                                            MIN_RT, MAX_RT)
            IN  /\ log_file[Len(log_file) - 1][3] =
                     <<"hits", r.n_hits, r.n_switches,
                              HitRatio(r.n_hits, r.n_switches)>>
                /\ log_file[Len(log_file)][3] = <<"mean_rt", r.mean_rt>>)

\* A log was written by a run with a color switch and a button press.
C28_Witness ==
    /\ pc = "done"
    /\ log_file # <<>>
    /\ switch_log # <<>>
    /\ button_events # <<>>

\* What a run records of its presentation.
Recorded == <<frame_idx, frame_onsets, button_events, scan_trigger_times>>

\* C29: cancellation is cooperative with a latency of at most one tick.  At
\* the break screen, at the trigger wait and at every iteration of the main
\* loop the abort key can be observed; the tick that observes it presents
\* no frame and records no frame onset, button or trigger event, and
\* neither does anything after it in that run.
C29_AbortStopsRecording ==
    /\ [](pc = "break_screen" => ENABLED (BreakScreen /\ pc' = "done"))
    /\ [](pc = "trigger_wait" => ENABLED (TriggerWait /\ aborted'))
    /\ []((pc = "loop" /\ frame_idx < nFrames) => ENABLED LoopAbort)
    /\ [][(pc = "break_screen" /\ pc' = "done") => Recorded' = Recorded]_vars
    /\ [][(aborted' /\ ~aborted) =>
            /\ pc \in {"trigger_wait", "loop"}
            /\ Recorded' = Recorded]_vars
    /\ [][(aborted /\ pc # "done") => Recorded' = Recorded]_vars

\* Aborted in the main loop after one frame and a button press; the run
\* went on to its end with nothing more recorded.
C29_Witness ==
    /\ aborted
    /\ pc = "done"
    /\ phase = "completing"
    /\ nFrames = 2
    /\ frame_idx = 1
    /\ Len(frame_onsets) = 1
    /\ Len(button_events) = 1

\* C30: the completion message, the end-screen wait and the
\* end-of-experiment eye-tracker markers are performed only after all N
\* frames were presented; a run aborted during Presenting does not perform
\* them.
C30_CompletedOnlyAfterAllFrames ==
    /\ phase = "completing" => (frame_idx = nFrames /\ ~aborted)
    /\ (\E i \in 1..Len(EndMarkers) : Count(et_calls, EndMarkers[i]) >= 1)
         => (frame_idx = nFrames /\ ~aborted)

\* The lifecycle calls of the eye-tracker interface, in the order run()
\* issues them; every other call is a marker message.
Lifecycle ==
    <<"connect", "calibrate", "drift_correction", "start_recording",
      "stop_recording", "download_data", "close">>

LifecycleCalls == SelectSeq(et_calls, LAMBDA c : c \in Range(Lifecycle))

IsPrefix(a, b) == Len(a) <= Len(b) /\ a = SubSeq(b, 1, Len(a))

\* C31: with an eye tracker attached the lifecycle calls are issued in one
\* fixed order: connect, calibrate, drift_correction, start_recording, the
\* marker messages, stop_recording, download_data, close.  At every moment
\* the lifecycle calls made so far are a prefix of that order, every marker
\* message comes after start_recording and before stop_recording, no call
\* follows close, and a run that reached the trigger wait and returns has
\* issued all of them.
C31_LifecycleOrder ==
    hasET =>
        /\ IsPrefix(LifecycleCalls, Lifecycle)
        /\ \A i \in 1..Len(et_calls) :
             /\ et_calls[i] \notin Range(Lifecycle) =>
                  /\ \E j \in 1..(i - 1) : et_calls[j] = "start_recording"
                  /\ \A j \in 1..(i - 1) : et_calls[j] # "stop_recording"
             /\ et_calls[i] = "close" => i = Len(et_calls)
        /\ ReturnedAfterTriggerWait => LifecycleCalls = Lifecycle

\* A completed run with an eye tracker: all seven lifecycle calls around
\* the marker messages, a scanner_trigger message among them.
C31_Witness ==
    /\ hasET
    /\ pc = "done"
    /\ ~aborted
    /\ phase = "completing"
    /\ LifecycleCalls = Lifecycle
    /\ Count(et_calls, "scanner_trigger") >= 1
    /\ et_calls[Len(et_calls)] = "close"

\* C32: with a clock that reads 0 on the first tick and advances by exactly
\* frame_duration per tick, frame k is presented at time k * frame_duration
\* for every k in 0..nFrames-1: every tick presents a frame (the latest
\* reading is the onset of the latest frame, so no tick slept), no frame
\* beyond the nFrames-th is presented, and the loop is left with
\* frame_idx = nFrames.
C32_GridSchedule ==
    /\ frame_idx <= nFrames
    /\ Len(frame_onsets) = frame_idx
    /\ \A k \in 0..(frame_idx - 1) : frame_onsets[k + 1] = k * frame_duration
    /\ IF t = <<>> THEN frame_idx = 0
       ELSE t[1] = (frame_idx - 1) * frame_duration
    /\ pc = "end_screen" => frame_idx = nFrames

\* Two frames of duration 2 presented at 0 and 2 and the loop left.
C32_Witness ==
    /\ pc = "end_screen"
    /\ nFrames = 2
    /\ frame_duration = 2
    /\ frame_onsets = <<0, 2>>
    /\ t = <<2>>

\* C34: if the abort key is never pressed and the loop keeps reading an
\* advancing clock, all nFrames frames are eventually presented; the run
\* does not stay in the main loop for ever and reaches the finally block.
C34_LoopTerminates ==
    /\ ([]~aborted) => <>(frame_idx = nFrames /\ Len(frame_onsets) = nFrames)
    /\ <>(pc = "finally")

\* A run that was not aborted has presented both of its frames, the second
\* one after a tick that waited, and stands at the finally block.
C34_Witness ==
    /\ pc = "finally"
    /\ ~aborted
    /\ exc = <<>>
    /\ nFrames = 2
    /\ frame_onsets = <<0, 2>>
    /\ \E i \in 1..Len(button_events) : button_events[i][1] = 1

\* C33: key sampling does not depend on frame timing.  On every tick of
\* the main loop, whether it presents a frame or waits, every response key
\* first seen pressed by the tick gets one button event stamped with the
\* tick's clock reading, and a trigger seen by the tick is logged with that
\* reading; nothing else is added to the two lists.
C33_SamplingOnEveryTick ==
    [][(pc = "loop" /\ t' # t) =>
         LET now == t'[1]
             seen == prev_button_state' \ prev_button_state
             n == Len(button_events)
         IN  /\ Len(button_events') = n + Cardinality(seen)
             /\ SubSeq(button_events', 1, n) = button_events
             /\ \A i \in (n + 1)..Len(button_events') :
                  /\ button_events'[i][1] = now
                  /\ button_events'[i][2] \in seen
             /\ \A k \in seen :
                  \E i \in (n + 1)..Len(button_events') :
                     button_events'[i] = <<now, k>>
             /\ scan_trigger_times' \in
                  {scan_trigger_times, Append(scan_trigger_times, now)}]_vars

\* A key press and a trigger recorded by a waiting tick, at a time strictly
\* between the onsets of frame 0 and frame 1.
C33_Witness ==
    /\ Len(frame_onsets) = 2
    /\ \E i \in 1..Len(button_events) :
          /\ frame_onsets[1] < button_events[i][1]
          /\ button_events[i][1] < frame_onsets[2]
    /\ \E i \in 1..Len(scan_trigger_times) :
          /\ frame_onsets[1] < scan_trigger_times[i]
          /\ scan_trigger_times[i] < frame_onsets[2]

\* The switch log the run reads from its marker is empty: no switch
\* occurred, or the marker class keeps no switch log.
NoSwitchLogged == SwitchLogOf(switch_log) = <<>>

\* C35: with an empty switch log the analysis and the logging complete
\* without error.  A run that ends the try block without exception has
\* written its log; the log has no fixation_color_switch row, its hit row
\* reports 0 hits of 0 switches with hit ratio 0, and its mean-reaction-
\* time row reports NaN.
C35_EmptySwitchLog ==
    NoSwitchLogged =>
        /\ (pc \in {"finally", "done"} /\ exc = <<>>) => log_file # <<>>
        /\ log_file # <<>> =>
             /\ OfKind(log_file, "fixation_color_switch") = <<>>
             /\ log_file[Len(log_file) - 1][3] = <<"hits", 0, 0, <<0, 1>>>>
             /\ log_file[Len(log_file)][3] = <<"mean_rt", <<"nan">>>>

\* A run with an ABCTargetFixation marker has presented two frames,
\* recorded a button press and written its log.
C35_Witness ==
    /\ fixation_class = "ABCTargetFixation"
    /\ pc = "done"
    /\ outcome = <<"returned">>
    /\ frame_idx = 2
    /\ button_events # <<>>
    /\ Len(log_file) = 6

\* C36: the marker is updated only as part of presenting a frame and with
\* that frame's clock reading.  In a run, every logged switch has the time
\* of a recorded frame onset and there are no more switches than presented
\* frames; the same holds of the fixation_color_switch and frame_onset rows
\* of the written log.
C36_SwitchesAtFrameOnsets ==
    /\ phase # "none" =>
         /\ Len(switch_log) <= Len(frame_onsets)
         /\ \A i \in 1..Len(switch_log) :
              \E k \in 1..Len(frame_onsets) : frame_onsets[k] = switch_log[i][1]
    /\ log_file # <<>> =>
         LET switches == OfKind(log_file, "fixation_color_switch")
             onsets == OfKind(log_file, "frame_onset")
         IN  /\ Len(switches) <= Len(onsets)
             /\ \A i \in 1..Len(switches) :
                  \E k \in 1..Len(onsets) : onsets[k][1] = switches[i][1]

\* A written log of two frames whose only switch came with the second
\* frame, after a tick that waited.
C36_Witness ==
    /\ pc = "done"
    /\ Len(OfKind(log_file, "frame_onset")) = 2
    /\ Len(OfKind(log_file, "fixation_color_switch")) = 1
    /\ OfKind(log_file, "fixation_color_switch")[1][1] = frame_onsets[2]
    /\ frame_onsets[2] > frame_onsets[1] + 1

\* The rows of one kind in the written log, as <<time, value>> pairs.
LoggedPairs(kind) ==
    LET rows == OfKind(log_file, kind)
    IN  [i \in 1..Len(rows) |-> <<rows[i][1], rows[i][3]>>]

\* C37: a run on a presenter that has run before starts from fresh
\* per-run state.  At the break screen the marker is newly constructed
\* (first color, no switch, empty switch log); when the main loop is
\* entered frame_idx is 0, the clock is new and the frame-onset, button
\* and trigger lists and the previous-key set are empty; and a written log
\* holds the events recorded since and nothing else, its result row
\* counting this run's switches.
C37_RerunStartsFresh ==
    /\ pc = "break_screen" =>
         /\ current_color = colors[1]
         /\ last_switch_time = <<>>
         /\ switch_log = <<>>
    /\ (pc = "loop" /\ t = <<>>) =>
         /\ frame_idx = 0
         /\ frame_onsets = <<>>
         /\ button_events = <<>>
         /\ scan_trigger_times = <<>>
         /\ prev_button_state = {}
         /\ switch_log = <<>>
    /\ log_file # <<>> =>
         /\ LoggedPairs("frame_onset") =
              [i \in 1..Len(frame_onsets) |-> <<frame_onsets[i], i - 1>>]
         /\ LoggedPairs("fixation_color_switch") = switch_log
         /\ LoggedPairs("button_press") = button_events
         /\ Len(OfKind(log_file, "scanner_trigger")) = Len(scan_trigger_times)
         /\ Len(switch_log) <= frame_idx
         /\ log_file[Len(log_file) - 1][3][3] = Len(switch_log)

\* The second run has written a log without any switch, button or trigger
\* row, where the first run had logged one of each.
C37_Witness ==
    /\ pc = "done"
    /\ outcome = <<"returned">>
    /\ nFrames = 2
    /\ update_calls = 2
    /\ Len(log_file) = 5
    /\ LoggedPairs("frame_onset") = <<<<1, 0>>, <<2, 1>>>>

\* The positions of a call in et_calls.
CallsAt(call) == {i \in 1..Len(et_calls) : et_calls[i] = call}

\* stimulus_onset was sent before every stimulus_end of the run.
OnsetBeforeEnd ==
    \A i \in CallsAt("stimulus_end") :
        \E j \in CallsAt("stimulus_onset") : j < i

\* C38 as stated: with an eye tracker, stimulus_onset is sent before the
\* first frame is presented, stimulus_end is sent after the last presented
\* frame (once it is sent the run is over), and whenever stimulus_end is
\* sent, stimulus_onset was sent earlier in the run.
C38_MarkersPaired ==
    hasET =>
        /\ frame_onsets # <<>> => CallsAt("stimulus_onset") # {}
        /\ CallsAt("stimulus_end") # {} => pc = "done"
        /\ OnsetBeforeEnd

\* C38 amended: with an eye tracker, stimulus_onset is sent before the
\* first frame is presented, stimulus_end is sent after the last presented
\* frame, and in every run that presented a frame and sends stimulus_end,
\* stimulus_onset was sent earlier in the run.
C38_MarkersBracketFrames ==
    hasET =>
        /\ frame_onsets # <<>> => CallsAt("stimulus_onset") # {}
        /\ CallsAt("stimulus_end") # {} => pc = "done"
        /\ frame_onsets # <<>> => OnsetBeforeEnd

\* A completed run with an eye tracker: two frames between the two markers.
C38_Witness ==
    /\ hasET
    /\ pc = "done"
    /\ Len(frame_onsets) = 2
    /\ CallsAt("stimulus_onset") # {}
    /\ CallsAt("stimulus_end") # {}
    /\ OnsetBeforeEnd

\* No connection exists after the first n calls: connect has not been
\* called since the tracker was constructed or last closed.
NoConnectionAfter(n) ==
    \A i \in 1..n :
        tracker_log[i].call = "connect" =>
            \E j \in (i + 1)..n : tracker_log[j].call = "close"

\* calibrate has not run in the first n calls: it was never called, or
\* only rejected.
NotCalibratedAfter(n) ==
    \A i \in 1..n :
        tracker_log[i].call = "calibrate" => tracker_log[i].outcome = "RuntimeError"
                                             /\ ~tracker_log[i].link_used

\* C39: EyeLinkTracker enforces its call protocol.  Without a connection
\* calibrate, start_recording and download_data raise RuntimeError, and so
\* does drift_correction when calibrate has not run; stop_recording and
\* send_message without a connection return and do nothing; none of these
\* calls uses the link or changes an attribute of the tracker.
C39_CallProtocol ==
    [][Len(tracker_log') = Len(tracker_log) + 1 =>
         LET n == Len(tracker_log)
             c == tracker_log'[n + 1]
             must_raise ==
                 \/ /\ c.call \in {"calibrate", "start_recording", "download_data"}
                    /\ NoConnectionAfter(n)
                 \/ /\ c.call = "drift_correction"
                    /\ NotCalibratedAfter(n)
             must_skip ==
                 /\ c.call \in {"stop_recording", "send_message"}
                 /\ NoConnectionAfter(n)
         IN  /\ must_raise => c.outcome = "RuntimeError"
             /\ must_skip => c.outcome = "returned"
             /\ (must_raise \/ must_skip) =>
                  /\ ~c.link_used
                  /\ UNCHANGED <<el_tracker, el_win, scn_width>>]_vars

\* After connect and close: a rejected calibrate, then a drift_correction
\* rejected because calibrate has not run.
C39_Witness ==
    /\ Len(tracker_log) = 3
    /\ tracker_log[1].call = "close"
    /\ tracker_log[2] = [call |-> "calibrate", outcome |-> "RuntimeError",
                         link_used |-> FALSE]
    /\ tracker_log[3] = [call |-> "drift_correction", outcome |-> "RuntimeError",
                         link_used |-> FALSE]
    /\ el_tracker = "None"
    /\ scn_width = "None"

\* C40: close() is safe to call more than once.  After any close() call,
\* also one in which closing the link raised, el_tracker is None; and a
\* close() that follows a close() with no connect in between returns
\* without raising and without using the link.
C40_CloseIdempotent ==
    /\ (tracker_log # <<>> /\ tracker_log[Len(tracker_log)].call = "close")
          => el_tracker = "None"
    /\ \A i \in 1..Len(tracker_log), j \in 1..Len(tracker_log) :
          (/\ i < j
           /\ tracker_log[i].call = "close"
           /\ tracker_log[j].call = "close"
           /\ \A k \in (i + 1)..(j - 1) : tracker_log[k].call # "connect")
          => /\ tracker_log[j].outcome = "returned"
             /\ ~tracker_log[j].link_used

\* connect, a close() in which closing the link raised, and a second
\* close().
C40_Witness ==
    /\ Len(tracker_log) = 3
    /\ tracker_log[1] = [call |-> "connect", outcome |-> "returned",
                         link_used |-> TRUE]
    /\ tracker_log[2] = [call |-> "close", outcome |-> "LinkError",
                         link_used |-> TRUE]
    /\ tracker_log[3] = [call |-> "close", outcome |-> "returned",
                         link_used |-> FALSE]
    /\ el_tracker = "None"
====
